---- MODULE Spec2Model ----
(***************************************************************************)
(* A model of server/auth: the User record (user.go) and the hashing and   *)
(* name-validation helpers (util.go).                                      *)
(*                                                                         *)
(* A Go string is a sequence of characters.  Each character is written as  *)
(* a one-character TLA+ string; "xFF" stands for a byte that is not valid  *)
(* UTF-8 and "uFFFD" for the Unicode replacement character U+FFFD.         *)
(* A role-key map (map[string]struct{}) lives in a heap `maps`; a User     *)
(* holds the address of its map, so that two records can share one map.    *)
(***************************************************************************)
EXTENDS Integers, Sequences, FiniteSets

VARIABLES
    users,      \* the User records created so far, in creation order
    maps,       \* the heap of role-key maps: maps[a] is the key set of map a
    cloneOf,    \* history: cloneOf[i] is the record i was cloned from, or 0
    last        \* the last call: its operation, receiver, argument and result

vars == <<users, maps, cloneOf, last>>

\* ------------------------------------------------------------------ bounds

\* The number of User records a run creates.
MaxUsers == 2
\* The longest username tried by the constructors.
MaxNameLen == 3
\* The longest roles array of a document.
MaxRolesLen == 2

\* ----------------------------------------------------------------- strings

Range(s) == {s[i] : i \in 1..Len(s)}

Upper == <<"A","B","C","D","E","F","G","H","I","J","K","L","M",
           "N","O","P","Q","R","S","T","U","V","W","X","Y","Z">>
Lower == <<"a","b","c","d","e","f","g","h","i","j","k","l","m",
           "n","o","p","q","r","s","t","u","v","w","x","y","z">>
Digit == <<"0","1","2","3","4","5","6","7","8","9">>

IndexIn(seq, c) == CHOOSE i \in 1..Len(seq) : seq[i] = c

\* The first byte of a character: what Go's string comparison and the
\* regular expression's character classes look at.  U+FFFD is EF BF BD.
ByteOf(c) ==
    IF c \in Range(Digit) THEN 47 + IndexIn(Digit, c)
    ELSE IF c \in Range(Upper) THEN 64 + IndexIn(Upper, c)
    ELSE IF c \in Range(Lower) THEN 96 + IndexIn(Lower, c)
    ELSE IF c = "_" THEN 95
    ELSE IF c = "-" THEN 45
    ELSE IF c = "#" THEN 35
    ELSE IF c = "uFFFD" THEN 239
    ELSE 255

\* Go's < on strings: bytewise lexicographic.
RECURSIVE StringLess(_, _)
StringLess(a, b) ==
    IF b = <<>> THEN FALSE
    ELSE IF a = <<>> THEN TRUE
    ELSE IF ByteOf(a[1]) < ByteOf(b[1]) THEN TRUE
    ELSE IF ByteOf(a[1]) > ByteOf(b[1]) THEN FALSE
    ELSE StringLess(Tail(a), Tail(b))

RECURSIVE InsertSorted(_, _)
InsertSorted(x, s) ==
    IF s = <<>> THEN <<x>>
    ELSE IF StringLess(x, s[1]) THEN <<x>> \o s
    ELSE <<s[1]>> \o InsertSorted(x, Tail(s))

\* sort.Strings
RECURSIVE SortStrings(_)
SortStrings(s) ==
    IF s = <<>> THEN <<>> ELSE InsertSorted(s[1], SortStrings(Tail(s)))

\* The orders in which `for k := range m` may visit the keys of a map.
KeyOrders(S) ==
    {o \in [1..Cardinality(S) -> S] : \A i, j \in 1..Cardinality(S) : o[i] = o[j] => i = j}

\* All strings over alphabet A of length at most n.
StringsUpTo(A, n) == UNION {[1..k -> A] : k \in 0..n}

\* ------------------------------------------------------------------ util.go

\* sha256 followed by hex encoding, as an injective function: the digest of
\* p is p behind a marker that no password starts with.
GenerateHash(password) == <<"#">> \o password

compareHashAndPasswordPlain(hash, password) ==
    IF hash = password THEN "nil" ELSE "PasswordMismatch"

compareHashAndPassword(hash, password) ==
    LET hashFromPlain == GenerateHash(password)
    IN  IF hash = hashFromPlain THEN "nil" ELSE "PasswordMismatch"

IsLetterByte(b) == b \in (65..90) \cup (97..122)
IsWordByte(b) == IsLetterByte(b) \/ b \in 48..57 \/ b = 95

\* [A-Za-z0-9_]*$ from position i on
RECURSIVE MatchWordsToEnd(_, _)
MatchWordsToEnd(name, i) ==
    IF i > Len(name) THEN TRUE
    ELSE IsWordByte(ByteOf(name[i])) /\ MatchWordsToEnd(name, i + 1)

\* patName.MatchString: ^([A-Za-z])[A-Za-z0-9_]*$
patNameMatchString(name) ==
    /\ Len(name) >= 1
    /\ IsLetterByte(ByteOf(name[1]))
    /\ MatchWordsToEnd(name, 2)

validateNameAnyFirst(name) ==
    IF MatchWordsToEnd(name, 1) THEN "nil" ELSE "InvalidName"

validateName(name) ==
    IF patNameMatchString(name) THEN "nil" ELSE "InvalidName"

\* ------------------------------------------------------------ encoding/json

\* A document is a JSON text, kept as what it parses to: kind "malformed"
\* (not JSON), "mistyped" (JSON whose shape does not fit jsonUser), "null",
\* or "object" with the keys it carries.  A key that is absent holds <<>>.
AllKeys == {"username", "hash", "roles"}

\* json.Marshal coerces a string to valid UTF-8: each invalid byte becomes
\* U+FFFD.
ToValidUTF8(s) == [i \in 1..Len(s) |-> IF s[i] = "xFF" THEN "uFFFD" ELSE s[i]]

IsValidUTF8(s) == \A i \in 1..Len(s) : s[i] # "xFF"

jsonMarshal(ju) ==
    [kind     |-> "object",
     keys     |-> AllKeys,
     username |-> ToValidUTF8(ju.Username),
     hash     |-> ToValidUTF8(ju.Hash),
     roles    |-> [i \in 1..Len(ju.RoleKeys) |-> ToValidUTF8(ju.RoleKeys[i])]]

zeroJsonUser == [Username |-> <<>>, Hash |-> <<>>, RoleKeys |-> <<>>]

\* json.Unmarshal into a jsonUser: an error, or the fields the document
\* carries, the zero value for each one it does not.
jsonUnmarshal(doc) ==
    IF doc.kind \in {"malformed", "mistyped"}
    THEN [err |-> "Deserialization", val |-> zeroJsonUser]
    ELSE IF doc.kind = "null"
    THEN [err |-> "nil", val |-> zeroJsonUser]
    ELSE [err |-> "nil",
          val |-> [Username |-> IF "username" \in doc.keys THEN doc.username ELSE <<>>,
                   Hash     |-> IF "hash" \in doc.keys THEN doc.hash ELSE <<>>,
                   RoleKeys |-> IF "roles" \in doc.keys THEN doc.roles ELSE <<>>]]

\* ------------------------------------------------------------------ inputs

alice  == <<"a","l","i","c","e">>
bad1   == <<"1","b","a","d">>
secret == <<"s","e","c","r","e","t","1","2","3">>
wrong  == <<"w","r","o","n","g">>
reader == <<"r","e","a","d","e","r">>
writer == <<"w","r","i","t","e","r">>

Passwords == {secret, wrong}

\* The record life cycle (Spec): a valid and an invalid name, a digest and a
\* plaintext stored as if it were one, two role keys.
Usernames == {alice, bad1}
Hashes    == {GenerateHash(secret), secret}
Roles     == {reader, writer}

Object(username, hash, roles) ==
    [kind |-> "object", keys |-> AllKeys, username |-> username, hash |-> hash, roles |-> roles]

NotAnObject(kind) ==
    [kind |-> kind, keys |-> {}, username |-> <<>>, hash |-> <<>>, roles |-> <<>>]

Docs ==
    { Object(alice, GenerateHash(secret), <<writer, reader>>),
      Object(alice, GenerateHash(secret), <<reader, reader>>),
      Object(alice, secret, <<>>),
      Object(bad1, GenerateHash(secret), <<writer>>),
      NotAnObject("malformed") }

\* The constructors alone (SpecNames): every name over a small alphabet, and
\* every document built from those names.
NameAlphabet == {"a", "Z", "7", "_", "-"}
AllNames     == StringsUpTo(NameAlphabet, MaxNameLen)
AllRoleLists == StringsUpTo(Roles, MaxRolesLen)

AllDocs ==
    {Object(n, GenerateHash(secret), rs) : n \in AllNames, rs \in AllRoleLists}
    \cup {[Object(<<>>, GenerateHash(secret), rs) EXCEPT !.keys = {"hash", "roles"}] :
              rs \in AllRoleLists}
    \cup {[Object(<<>>, <<>>, <<>>) EXCEPT !.keys = {}]}
    \cup {NotAnObject(k) : k \in {"malformed", "mistyped", "null"}}

\* Serialization (SpecCodec): strings that are not valid UTF-8 as well.
CodecHashes == {GenerateHash(secret), <<"xFF">>}
CodecRoles  == {reader, writer, <<"xFF">>, <<"uFFFD", "b">>}

\* ------------------------------------------------------------------ user.go

NoCall == [op |-> "none", u |-> 0, arg |-> <<>>, err |-> "nil", out |-> 0, from |-> 0]

Call(op, u, arg, err, out) ==
    [op |-> op, u |-> u, arg |-> arg, err |-> err, out |-> out, from |-> 0]

\* The key set of record i's role-key map.
RoleKeysOf(i) == maps[users[i].RoleKeys]

Init ==
    /\ users = <<>>
    /\ maps = <<>>
    /\ cloneOf = <<>>
    /\ last = NoCall

\* The roleKeys slice of MarshalJSON: the keys as ranged over, then sorted.
MarshalRoleKeysUnsorted(order) == order

MarshalRoleKeys(order) == SortStrings(order)

jsonUserOfNoHash(u, roleKeys) ==
    [Username |-> u.Username, Hash |-> <<>>, RoleKeys |-> roleKeys]

\* _u := jsonUser{Username: u.Username, Hash: u.Hash, RoleKeys: roleKeys}
jsonUserOf(u, roleKeys) ==
    [Username |-> u.Username, Hash |-> u.Hash, RoleKeys |-> roleKeys]

MarshalJSON(i) ==
    /\ i \in 1..Len(users)
    /\ \E order \in KeyOrders(RoleKeysOf(i)) :
          last' = Call("MarshalJSON", i, <<>>, "nil",
                       jsonMarshal(jsonUserOf(users[i], MarshalRoleKeys(order))))
    /\ UNCHANGED <<users, maps, cloneOf>>

\* The body of UnmarshalJSON on a record u whose map holds `keys`: the error,
\* the record and the map's keys afterwards.
UserUnmarshalJSON(u, keys, doc) ==
    LET r == jsonUnmarshal(doc)
    IN  IF r.err # "nil"
        THEN [err |-> r.err, user |-> u, keys |-> keys]
        ELSE [err  |-> "nil",
              user |-> [u EXCEPT !.Username = r.val.Username, !.Hash = r.val.Hash],
              keys |-> keys \cup Range(r.val.RoleKeys)]

UnmarshalJSON(i, doc) ==
    /\ i \in 1..Len(users)
    /\ LET r == UserUnmarshalJSON(users[i], RoleKeysOf(i), doc)
       IN  /\ users' = [users EXCEPT ![i] = r.user]
           /\ maps' = [maps EXCEPT ![users[i].RoleKeys] = r.keys]
           /\ last' = Call("UnmarshalJSON", i, doc, r.err, 0)
    /\ UNCHANGED cloneOf

NewUser(username, hash) ==
    /\ Len(users) < MaxUsers
    /\ LET err == validateName(username)
       IN  IF err # "nil"
           THEN /\ last' = Call("NewUser", 0, <<username, hash>>, err, 0)
                /\ UNCHANGED <<users, maps, cloneOf>>
           ELSE /\ users' = Append(users, [Username |-> username, Hash |-> hash,
                                           RoleKeys |-> Len(maps) + 1])
                /\ maps' = Append(maps, {})
                /\ cloneOf' = Append(cloneOf, 0)
                /\ last' = Call("NewUser", 0, <<username, hash>>, "nil", Len(users) + 1)

\* The record whose MarshalJSON output j is, when the call before was that one.
MarshalledFrom(j) ==
    IF last.op = "MarshalJSON" /\ last.out = j THEN last.u ELSE 0

NewUserFromJSONUnvalidated(j) ==
    /\ Len(users) < MaxUsers
    /\ LET user == [Username |-> <<>>, Hash |-> <<>>, RoleKeys |-> Len(maps) + 1]
           r    == UserUnmarshalJSON(user, {}, j)
       IN  /\ users' = Append(users, r.user)
           /\ maps' = Append(maps, r.keys)
           /\ cloneOf' = Append(cloneOf, 0)
           /\ last' = [Call("NewUserFromJSON", 0, j, "nil", Len(users) + 1)
                          EXCEPT !.from = MarshalledFrom(j)]

NewUserFromJSON(j) ==
    /\ Len(users) < MaxUsers
    /\ LET user == [Username |-> <<>>, Hash |-> <<>>, RoleKeys |-> Len(maps) + 1]
           r    == UserUnmarshalJSON(user, {}, j)
           err  == IF r.err # "nil" THEN r.err ELSE validateName(r.user.Username)
       IN  IF err # "nil"
           THEN /\ last' = [Call("NewUserFromJSON", 0, j, err, 0)
                               EXCEPT !.from = MarshalledFrom(j)]
                /\ UNCHANGED <<users, maps, cloneOf>>
           ELSE /\ users' = Append(users, r.user)
                /\ maps' = Append(maps, r.keys)
                /\ cloneOf' = Append(cloneOf, 0)
                /\ last' = [Call("NewUserFromJSON", 0, j, "nil", Len(users) + 1)
                               EXCEPT !.from = MarshalledFrom(j)]

CloneDeep(i) ==
    /\ i \in 1..Len(users)
    /\ Len(users) < MaxUsers
    /\ users' = Append(users, [users[i] EXCEPT !.RoleKeys = Len(maps) + 1])
    /\ maps' = Append(maps, RoleKeysOf(i))
    /\ cloneOf' = Append(cloneOf, i)
    /\ last' = Call("Clone", i, <<>>, "nil", Len(users) + 1)

\* &User{Username: u.Username, Hash: u.Hash, RoleKeys: u.RoleKeys}
Clone(i) ==
    /\ i \in 1..Len(users)
    /\ Len(users) < MaxUsers
    /\ users' = Append(users, [Username |-> users[i].Username, Hash |-> users[i].Hash,
                               RoleKeys |-> users[i].RoleKeys])
    /\ cloneOf' = Append(cloneOf, i)
    /\ last' = Call("Clone", i, <<>>, "nil", Len(users) + 1)
    /\ UNCHANGED maps

\* The roleKeys slice of GetSafeUser.
SafeRoleKeysUnsorted(order) == order

SafeRoleKeys(order) == SortStrings(order)

GetSafeUser(i) ==
    /\ i \in 1..Len(users)
    /\ \E order \in KeyOrders(RoleKeysOf(i)) :
          last' = Call("GetSafeUser", i, <<>>, "nil",
                       [Username |-> users[i].Username, RoleKeys |-> SafeRoleKeys(order)])
    /\ UNCHANGED <<users, maps, cloneOf>>

GetUsername(i) ==
    /\ i \in 1..Len(users)
    /\ last' = Call("GetUsername", i, <<>>, "nil", users[i].Username)
    /\ UNCHANGED <<users, maps, cloneOf>>

\* GetRoleKeys returns the map itself: its address.
GetRoleKeys(i) ==
    /\ i \in 1..Len(users)
    /\ last' = Call("GetRoleKeys", i, <<>>, "nil", users[i].RoleKeys)
    /\ UNCHANGED <<users, maps, cloneOf>>

\* A caller's u.GetRoleKeys()[name] = struct{}{}
PutRoleKey(i, name) ==
    /\ i \in 1..Len(users)
    /\ maps' = [maps EXCEPT ![users[i].RoleKeys] = @ \cup {name}]
    /\ last' = Call("PutRoleKey", i, name, "nil", 0)
    /\ UNCHANGED <<users, cloneOf>>

\* A caller's delete(u.GetRoleKeys(), name)
DeleteRoleKey(i, name) ==
    /\ i \in 1..Len(users)
    /\ maps' = [maps EXCEPT ![users[i].RoleKeys] = @ \ {name}]
    /\ last' = Call("DeleteRoleKey", i, name, "nil", 0)
    /\ UNCHANGED <<users, cloneOf>>

HasRole(i, name) ==
    /\ i \in 1..Len(users)
    /\ last' = Call("HasRole", i, name, "nil", \E k \in RoleKeysOf(i) : k = name)
    /\ UNCHANGED <<users, maps, cloneOf>>

ComparePassword(i, candidate) ==
    /\ i \in 1..Len(users)
    /\ last' = Call("ComparePassword", i, candidate,
                    compareHashAndPassword(users[i].Hash, candidate), 0)
    /\ UNCHANGED <<users, maps, cloneOf>>

\* ----------------------------------------------------------- specifications

\* What a caller can hand to a deserializer: a document of Docs, or the
\* output of the MarshalJSON call just made.
DocInputs == Docs \cup (IF last.op = "MarshalJSON" THEN {last.out} ELSE {})

Next ==
    \/ \E n \in Usernames, h \in Hashes : NewUser(n, h)
    \/ \E j \in DocInputs : NewUserFromJSON(j)
    \/ \E i \in 1..Len(users) :
          \/ Clone(i)
          \/ GetSafeUser(i)
          \/ GetUsername(i)
          \/ GetRoleKeys(i)
          \/ MarshalJSON(i)
          \/ \E j \in DocInputs : UnmarshalJSON(i, j)
          \/ \E r \in Roles : HasRole(i, r) \/ PutRoleKey(i, r) \/ DeleteRoleKey(i, r)
          \/ \E c \in Passwords : ComparePassword(i, c)

Spec == Init /\ [][Next]_vars

\* Each constructor called once, on every input.
NextNames ==
    \/ last = NoCall /\ \E n \in AllNames, h \in Hashes : NewUser(n, h)
    \/ last = NoCall /\ \E j \in AllDocs : NewUserFromJSON(j)

SpecNames == Init /\ [][NextNames]_vars

\* One record, its role set changed at will, serialized and read back.
NextCodec ==
    \/ \E h \in CodecHashes : Len(users) = 0 /\ NewUser(alice, h)
    \/ \E r \in CodecRoles : Len(users) = 1 /\ (PutRoleKey(1, r) \/ DeleteRoleKey(1, r))
    \/ Len(users) = 1 /\ MarshalJSON(1)
    \/ Len(users) = 1 /\ last.op = "MarshalJSON" /\ NewUserFromJSON(last.out)

SpecCodec == Init /\ [][NextCodec]_vars

\* ------------------------------------------------------------------ claims

Letters   == Range(Upper) \cup Range(Lower)
WordChars == Letters \cup Range(Digit) \cup {"_"}

\* One ASCII letter followed by zero or more ASCII letters, digits or
\* underscores.
NamingPattern(n) ==
    /\ n # <<>>
    /\ n[1] \in Letters
    /\ \A k \in 2..Len(n) : n[k] \in WordChars

\* Strictly ascending: sorted, and no string twice.
IsSortedAsc(s) == \A a, b \in 1..Len(s) : a < b => StringLess(s[a], s[b])

\* C1: the username of every record matches the naming pattern in every
\* state reached by the record's public operations.
C1_UsernameAlwaysValid ==
    \A i \in 1..Len(users) : NamingPattern(users[i].Username)

\* The call just made took the document MarshalJSON made of record last.from.
RoundTripped == last.op = "NewUserFromJSON" /\ last.from # 0

\* C2 as stated: MarshalJSON followed by NewUserFromJSON succeeds and gives
\* a record with the same username, digest and role set.
C2_RoundTrip ==
    RoundTripped =>
        /\ last.err = "nil"
        /\ users[last.out].Username = users[last.from].Username
        /\ users[last.out].Hash = users[last.from].Hash
        /\ RoleKeysOf(last.out) = RoleKeysOf(last.from)

\* The digest and every role key of record i are valid UTF-8.
StringsAreUTF8(i) ==
    /\ IsValidUTF8(users[i].Hash)
    /\ \A r \in RoleKeysOf(i) : IsValidUTF8(r)

\* C2 amended: the round trip gives back the username, the digest and the
\* role set of a record whose digest and role keys are valid UTF-8.
C2_RoundTripUTF8 ==
    (RoundTripped /\ StringsAreUTF8(last.from)) =>
        /\ last.err = "nil"
        /\ users[last.out].Username = users[last.from].Username
        /\ users[last.out].Hash = users[last.from].Hash
        /\ RoleKeysOf(last.out) = RoleKeysOf(last.from)

C2_Witness ==
    /\ RoundTripped
    /\ last.err = "nil"
    /\ RoleKeysOf(last.from) = {reader, writer}
    /\ users[last.from].Hash = GenerateHash(secret)

\* C3: NewUser succeeds exactly on the names that match the pattern; it
\* fails with InvalidName and no record otherwise, and on success returns a
\* record with the name, the digest as given and no role.
C3_NewUser ==
    last.op = "NewUser" =>
        LET n == last.arg[1]
            h == last.arg[2]
        IN  /\ (last.err = "nil") <=> NamingPattern(n)
            /\ ~NamingPattern(n) =>
                  /\ last.err = "InvalidName"
                  /\ last.out = 0
                  /\ users = <<>>
            /\ NamingPattern(n) =>
                  /\ last.out = Len(users)
                  /\ users[last.out].Username = n
                  /\ users[last.out].Hash = h
                  /\ RoleKeysOf(last.out) = {}

C3_Witness ==
    /\ last.op = "NewUser"
    /\ last.arg[1] = <<"Z", "_", "7">>
    /\ last.err = "nil"
    /\ Len(users) = 1

\* The username a document carries: the empty string when it carries none.
DocUsername(j) ==
    IF j.kind = "object" /\ "username" \in j.keys THEN j.username ELSE <<>>

\* C4: NewUserFromJSON fails with a deserialization error on a document that
\* does not parse, with InvalidName on one that parses to a username outside
\* the pattern (or to none), and a failure returns no record.
C4_NewUserFromJSONErrors ==
    last.op = "NewUserFromJSON" =>
        LET j == last.arg
            parses == j.kind \notin {"malformed", "mistyped"}
        IN  /\ ~parses => last.err = "Deserialization"
            /\ (parses /\ ~NamingPattern(DocUsername(j))) => last.err = "InvalidName"
            /\ (parses /\ NamingPattern(DocUsername(j))) => last.err = "nil"
            /\ last.err # "nil" => (last.out = 0 /\ users = <<>>)
            /\ last.err = "nil" => (last.out = 1 /\ Len(users) = 1)

C4_Witness ==
    /\ last.op = "NewUserFromJSON"
    /\ last.arg.kind = "object"
    /\ "username" \notin last.arg.keys
    /\ last.err = "InvalidName"
    /\ users = <<>>

C5_Result ==
    last.op = "ComparePassword" =>
        \A p \in Passwords :
            users[last.u].Hash = GenerateHash(p) =>
                /\ (last.err = "nil") <=> (last.arg = p)
                /\ last.arg # p => last.err = "PasswordMismatch"

C5_Frame ==
    last'.op = "ComparePassword" => (users' = users /\ maps' = maps)

\* C5: on a record whose digest is GenerateHash(p), ComparePassword(c)
\* returns no error exactly when c = p and PasswordMismatch otherwise, and
\* the call changes no record and no role set.
C5_ComparePassword == [](C5_Result) /\ [][C5_Frame]_vars

C5_Witness ==
    /\ last.op = "ComparePassword"
    /\ users[last.u].Hash = GenerateHash(secret)
    /\ last.arg = wrong
    /\ last.err = "PasswordMismatch"

\* Whatever order the keys are ranged over, MarshalJSON gives this document.
MarshalIsDeterministic ==
    \A order \in KeyOrders(RoleKeysOf(last.u)) :
        jsonMarshal(jsonUserOf(users[last.u], MarshalRoleKeys(order))) = last.out

C7_GetSafeUser ==
    /\ last.op = "GetSafeUser" =>
          /\ DOMAIN last.out = {"Username", "RoleKeys"}
          /\ last.out.Username = users[last.u].Username
          /\ IsSortedAsc(last.out.RoleKeys)
          /\ Range(last.out.RoleKeys) = RoleKeysOf(last.u)
    /\ (last.op = "NewUserFromJSON" /\ last.err = "nil" /\ last.arg.roles = <<writer, reader>>) =>
          \A order \in KeyOrders(RoleKeysOf(last.out)) :
              SafeRoleKeys(order) = <<reader, writer>>

C7_Witness ==
    /\ last.op = "GetSafeUser"
    /\ last.out.RoleKeys = <<reader, writer>>

RecordUnchanged(k) ==
    /\ users'[k].Username = users[k].Username
    /\ users'[k].Hash = users[k].Hash
    /\ maps'[users'[k].RoleKeys] = maps[users[k].RoleKeys]

C9_Step ==
    \A j \in 1..Len(users) :
        (cloneOf[j] # 0 /\ last'.op \in {"PutRoleKey", "DeleteRoleKey"}) =>
            /\ last'.u = j => RecordUnchanged(cloneOf[j])
            /\ last'.u = cloneOf[j] => RecordUnchanged(j)

\* C9: a clone is a deep copy: a role added or removed through the clone
\* leaves the original as it was, and the other way round.
C9_CloneIsDeepCopy == [][C9_Step]_vars

\* C10: after NewUserFromJSON or UnmarshalJSON succeeds, the record's role
\* set is exactly the set of strings of the document's roles array, and its
\* username and digest are the document's.
C10_RoleSetFromDocument ==
    (last.op \in {"NewUserFromJSON", "UnmarshalJSON"} /\ last.err = "nil") =>
        LET i == IF last.op = "UnmarshalJSON" THEN last.u ELSE last.out
        IN  /\ RoleKeysOf(i) = Range(last.arg.roles)
            /\ users[i].Username = last.arg.username
            /\ users[i].Hash = last.arg.hash

====
